---- MODULE Spec2Model ----
(***************************************************************************)
(* State-machine model of the browser pool of @xmer/rss-reader:            *)
(* BrowserPool (acquire / release / initialize / close / recoverBrowser /  *)
(* cleanup), BrowserManager (launch / close / kill / restart), and the     *)
(* fetch attempt loop of RssReader.fetchAndParse that drives the pool.     *)
(*                                                                         *)
(* JavaScript runs one macrotask at a time: every action below is the      *)
(* code that runs between two suspension points (an await on the browser   *)
(* engine, a timer, a queued promise).                                     *)
(***************************************************************************)
EXTENDS Integers, Sequences, FiniteSets, TLC

\* ----------------------------------------------------------------- bounds
NumCallers == 3
MaxHandles == 4
MaxInits == 1
MaxCrashes == 1
MaxTimeouts == 1
MaxFetches == 1
RetryAttempts == 2
MaxAttempts == 3
NumErrors == 2
MaxDelay == 4
MaxEntries == 2
MaxHtml == 4
MaxLiveFetches == 2

\* ------------------------------------------------------ program constants
PoolSize == 2
DefaultMaxRetries == 3
NoHandle == 0

Callers == 1 .. NumCallers
Handles == 1 .. MaxHandles
ManagerIds == 1 .. ((MaxInits + 1) * PoolSize)

VARIABLES
  initialized,        \* BrowserPool.initialized
  managers,           \* BrowserPool.managers: sequence of manager ids
  availableBrowsers,  \* BrowserPool.availableBrowsers: sequence of handles
  busyBrowsers,       \* BrowserPool.busyBrowsers: set of handles
  waitQueue,          \* BrowserPool.waitQueue: sequence of queued callbacks
  browser,            \* BrowserManager.browser, per manager (NoHandle = null)
  launching,          \* BrowserManager.launching, per manager
  connected,          \* engine: handles whose isConnected() is true
  launchedBy,         \* engine: manager whose launch() produced the handle
  inits,              \* number of initialize() calls that created managers
  crashes,            \* number of engine crashes so far
  timeouts,           \* number of acquire timers that fired so far
  cleanupRan,         \* whether cleanup() has ever started
  fetches,            \* number of fetchAndParse() calls started so far
  lastReleased,       \* handle of the release() that just completed, else NoHandle
  proc,               \* per caller: position in its call and its locals
  rh,                 \* a running RetryHandler.executeWithRetry call and its locals
  reader              \* an RssReader call past the pool: its inputs and what it produced

vars == << initialized, managers, availableBrowsers, busyBrowsers, waitQueue,
           browser, launching, connected, launchedBy, inits, crashes,
           timeouts, cleanupRan, fetches, lastReleased, proc, rh, reader >>

poolVars == << initialized, managers, availableBrowsers, busyBrowsers, waitQueue >>
managerVars == << browser, launching >>
engineVars == << connected, launchedBy >>

\* ------------------------------------------------------ sequence helpers
Last(s) == s[Len(s)]
Front(s) == SubSeq(s, 1, Len(s) - 1)
Range(s) == { s[i] : i \in 1 .. Len(s) }

\* Array.prototype.indexOf, 1-based; 0 stands for -1
IndexOf(s, x) ==
  IF \E i \in 1 .. Len(s) : s[i] = x
  THEN CHOOSE i \in 1 .. Len(s) : s[i] = x /\ \A j \in 1 .. (i - 1) : s[j] # x
  ELSE 0

\* Array.prototype.splice(index, 1)
Splice(s, i) == SubSeq(s, 1, i - 1) \o SubSeq(s, i + 1, Len(s))

\* ------------------------------------------------- queued callbacks
\* The wait queue holds the wrapper closure pushed by acquire(); the promise's
\* own resolve function is a different function object.  settled records
\* whether the promise behind the callback was already resolved or rejected.
NoEntry == [fn |-> "none", owner |-> 0, settled |-> TRUE]
wrapper(c) == [fn |-> "wrapper", owner |-> c, settled |-> FALSE]
resolve(c) == [fn |-> "resolve", owner |-> c, settled |-> FALSE]

\* rejecting caller c's pending promise settles it wherever its callback is kept
settle(e, c) == IF e.owner = c /\ ~e.settled THEN [e EXCEPT !.settled = TRUE] ELSE e

\* ------------------------------------------------------- caller records
IdleProc == [pc |-> "idle", op |-> "none", held |-> NoHandle, h |-> NoHandle,
             attempt |-> 0, maxRetries |-> 0, target |-> NoEntry,
             closing |-> {}, mgrs |-> << >>, mode |-> "raw", tries |-> 0,
             url |-> "none", closed |-> FALSE, result |-> "none"]

\* outcomes of a call that returned normally
Returned == {"released", "initialized", "initialize:noop", "closed", "close:noop"}

\* the caller's pool call is over with outcome r; when the call was made by a
\* fetchAndParse attempt, executeWithRetry decides what comes next: the feed
\* text is returned, or the attempt failed and is retried after a delay, or
\* the last error is thrown
EndCall(p, r) ==
  LET done == [IdleProc EXCEPT !.result = r] IN
  IF p.mode = "raw" THEN done
  ELSE IF r \in Returned /\ p.mode = "fetched_ok"
       THEN [IdleProc EXCEPT !.result = "fetched"]
       ELSE IF p.tries < RetryAttempts
            THEN [IdleProc EXCEPT !.pc = "sleeping", !.mode = "fetch",
                                  !.tries = p.tries, !.url = p.url,
                                  !.result = "attempt:failed"]
            ELSE [IdleProc EXCEPT !.result = "fetchAndParse:failed"]

\* the caller's acquire() promise resolves with handle hh; attempt and
\* maxRetries stay on record when the call went through recovery rounds
Got(p, hh) == [IdleProc EXCEPT !.pc = "holding", !.held = hh, !.mode = p.mode,
                               !.tries = p.tries, !.url = p.url, !.attempt = p.attempt,
                               !.maxRetries = p.maxRetries, !.result = "acquired"]

\* resolve(e): the callers whose suspended code runs when callback e is called.
\* A callback queued by release()'s inner acquire() resumes that release(),
\* which in turn calls the callback it took from the queue.
RECURSIVE Chain(_)
Chain(e) ==
  IF e.settled \/ e.owner = 0 THEN << >>
  ELSE IF proc[e.owner].op = "release_acquire"
       THEN << e.owner >> \o Chain(proc[e.owner].target)
       ELSE << e.owner >>

\* a callback that resumes nobody
ReceiverNone(e) == 0

Receiver(e) ==
  LET ch == Chain(e) IN
  IF ch = << >> THEN 0
  ELSE IF proc[Last(ch)].op = "acquire" THEN Last(ch) ELSE 0

Releasers(e) == { x \in Range(Chain(e)) : proc[x].op = "release_acquire" }

Deliver(e, hh, base) ==
  [x \in Callers |->
     IF x \in Releasers(e) THEN EndCall(base[x], "released")
     ELSE IF x = Receiver(e) THEN Got(base[x], hh)
     ELSE base[x]]

\* result is what a call returned or threw in the step that ended it
quiet == [x \in Callers |-> [proc[x] EXCEPT !.result = "none"]]

\* callers that are not in a call are interchangeable: the next call is made
\* by the first of them
idleCaller(c) ==
  /\ proc[c].pc = "idle"
  /\ \A x \in Callers : x < c => proc[x].pc # "idle"

\* the locals of a running acquire(maxRetries, attempt); only calls that went
\* through a recovery round keep them on record
withAttempt(p, att, mr) ==
  IF att > 0 THEN [p EXCEPT !.attempt = att, !.maxRetries = mr]
  ELSE [p EXCEPT !.attempt = 0, !.maxRetries = 0]

\* ----------------------------------------------------------- pool queries
getStats == [total |-> PoolSize, available |-> Len(availableBrowsers),
             inUse |-> Cardinality(busyBrowsers)]

isInitialized == initialized

\* a liveness check that every handle passes
isConnectedAlways(hh) == TRUE

\* browser.isConnected()
isConnected(hh) == hh \in connected

NextHandle == 1 + Cardinality({ hh \in Handles : launchedBy[hh] # 0 })

\* recoverBrowser: this.managers.find(m => m.getBrowser() === browser)
FindManager(hh) ==
  IF \E i \in 1 .. Len(managers) : browser[managers[i]] = hh
  THEN managers[CHOOSE i \in 1 .. Len(managers) :
                  /\ browser[managers[i]] = hh
                  /\ \A j \in 1 .. (i - 1) : browser[managers[j]] # hh]
  ELSE 0

\* ------------------------------------------------ RetryHandler records
\* JavaScript values that an operation returns or throws and that
\* executeWithRetry creates: kind tells what the value is, origin who made it
Undefined == [kind |-> "undefined", id |-> 0, origin |-> "none"]
ReturnValues == [kind : {"value"}, id : 1 .. NumErrors, origin : {"operation"}]
ThrownValues == [kind : {"Error", "string"}, id : 1 .. NumErrors, origin : {"operation"}]

\* executeWithRetry: new Error('maxAttempts must be at least 1')
ValidationError == [kind |-> "Error", id |-> 0, origin |-> "validation"]

\* a conversion that wraps every thrown value
toErrorAlways(x) == [kind |-> "Error", id |-> x.id, origin |-> "executeWithRetry"]

\* executeWithRetry: error instanceof Error ? error : new Error(String(error))
toError(x) ==
  IF x.kind = "Error" THEN x
  ELSE [kind |-> "Error", id |-> x.id, origin |-> "executeWithRetry"]

\* no executeWithRetry call has been made
IdleRetry == [pc |-> "idle", n |-> 0, attempt |-> 0, currentDelay |-> 0,
              initialDelay |-> 0, multiplier |-> 0, maxDelay |-> 0, calls |-> << >>, sleeps |-> << >>,
              lastError |-> Undefined, out |-> Undefined]

\* ------------------------------------------------------------ RssReader
\* text is a sequence of one-character tokens; String.prototype.trim
RECURSIVE trimStart(_)
trimStart(s) == IF s # << >> /\ Head(s) = " " THEN trimStart(Tail(s)) ELSE s

RECURSIVE trimEnd(_)
trimEnd(s) == IF s # << >> /\ Last(s) = " " THEN trimEnd(Front(s)) ELSE s

trim(s) == trimEnd(trimStart(s))

\* a JavaScript value that is undefined, a string, or (NotString) a truthy
\* value of another type
NoText == [type |-> "undefined", text |-> << >>]
Some(t) == [type |-> "string", text |-> t]
NotString == [type |-> "number", text |-> << >>]

\* JavaScript falsiness of such a value
falsy(v) == v.type = "undefined" \/ (v.type = "string" /\ v.text = << >>)

\* a value that is undefined, a Date, or (NotDate) a truthy value that is no
\* Date; an invalid Date has getTime() NaN
NoDate == [type |-> "undefined", valid |-> FALSE, time |-> 0]
NotDate == [type |-> "string", valid |-> FALSE, time |-> 0]

\* a value that is an array of values, or (NoArray) is not an array
NoArray == [type |-> "undefined", elems |-> << >>]
Array(elems) == [type |-> "array", elems |-> elems]

\* an RssItem before any field is set
NoItem == [title |-> NoText, link |-> NoText, publishedAt |-> NoDate, links |-> NoArray,
           itemId |-> NoText, rawContent |-> NoText, metadata |-> "undefined"]

\* an error of RssReaderErrors: FeedFetchError(message, feedUrl) and
\* ParseError(message, feedUrl, itemTitle); "undefined" is an omitted feedUrl
NoError == [name |-> "none", message |-> "", feedUrl |-> "undefined", itemTitle |-> NoText]
FeedFetchError(message, feedUrl) ==
  [name |-> "FeedFetchError", message |-> message, feedUrl |-> feedUrl, itemTitle |-> NoText]
ParseError(message, feedUrl, itemTitle) ==
  [name |-> "ParseError", message |-> message, feedUrl |-> feedUrl, itemTitle |-> itemTitle]

\* InvalidFeedError(message, feedUrl); it has no item title
InvalidFeedError(message, feedUrl) ==
  [name |-> "InvalidFeedError", message |-> message, feedUrl |-> feedUrl, itemTitle |-> NoText]

\* page.goto and response.text() before any call was made
NoContent == [kind |-> "null", text |-> << >>]
NoNavigation == [kind |-> "none", status |-> 0, content |-> NoContent]
NoConfig == [titlePrefixPattern |-> "undefined", titleSuffixPattern |-> "undefined"]
NoOutcome == [kind |-> "none", content |-> << >>, items |-> << >>, links |-> << >>,
              valid |-> FALSE, error |-> NoError]

\* no RssReader call has been made
IdleReader == [pc |-> "idle", feedUrl |-> "none", nav |-> NoNavigation,
               config |-> NoConfig, rawItems |-> << >>, item |-> NoItem,
               html |-> << >>, out |-> NoOutcome]

Init ==
  /\ initialized = FALSE
  /\ managers = << >>
  /\ availableBrowsers = << >>
  /\ busyBrowsers = {}
  /\ waitQueue = << >>
  /\ browser = [m \in ManagerIds |-> NoHandle]
  /\ launching = [m \in ManagerIds |-> FALSE]
  /\ connected = {}
  /\ launchedBy = [hh \in Handles |-> 0]
  /\ inits = 0
  /\ crashes = 0
  /\ timeouts = 0
  /\ cleanupRan = FALSE
  /\ fetches = 0
  /\ lastReleased = NoHandle
  /\ proc = [c \in Callers |-> IdleProc]
  /\ rh = IdleRetry
  /\ reader = IdleReader

\* ------------------------------------------------------------- acquire()
\* a busyBrowsers.add() that does nothing
busyAddSkipped(busy, hh) == busy

\* BrowserPool.acquire / release: this.busyBrowsers.add(browser)
busyAdd(busy, hh) == busy \cup {hh}

\* a busyBrowsers.delete() that does nothing
busyDeleteSkipped(busy, hh) == busy

\* BrowserPool.release: this.busyBrowsers.delete(browser)
busyDelete(busy, hh) == busy \ {hh}

\* the retry check off by one round
retriesExhaustedLate(att, mr) == att > mr

\* BrowserPool.acquire: attempt >= maxRetries
retriesExhausted(att, mr) == att >= mr

\* a pop() that reads the last handle and leaves it in the array
popPeek(avail) == avail

\* BrowserPool.acquire: what availableBrowsers.pop() leaves in the array
pop(avail) == Front(avail)

\* The synchronous part of acquire(maxRetries, attempt), run by caller c for
\* itself (k = "acquire") or inside release() for a waiter (k = "release_acquire"),
\* from the given array, set and engine state.
acquireSync(c, k, att, mr, avail, busy, conn, base) ==
  LET p == base[c]
      fail(r) == [base EXCEPT ![c] = EndCall(p, r)]
  IN
  IF ~initialized THEN
    /\ availableBrowsers' = avail
    /\ busyBrowsers' = busy
    /\ waitQueue' = waitQueue
    /\ proc' = fail("acquire:not_initialized")
  ELSE IF retriesExhausted(att, mr) THEN
    /\ availableBrowsers' = avail
    /\ busyBrowsers' = busy
    /\ waitQueue' = waitQueue
    /\ proc' = fail("acquire:max_retries")
  ELSE IF Len(avail) > 0 THEN
    LET hh == Last(avail) IN
    /\ availableBrowsers' = pop(avail)
    /\ waitQueue' = waitQueue
    /\ IF hh \notin conn
       THEN /\ busyBrowsers' = busy
            /\ proc' = IF FindManager(hh) = 0
                       THEN fail("recover:manager_not_found")
                       ELSE [base EXCEPT ![c] =
                               [p EXCEPT !.pc = "closing", !.op = k, !.h = hh,
                                         !.attempt = att, !.maxRetries = mr]]
       ELSE /\ busyBrowsers' = busyAdd(busy, hh)
            /\ proc' = IF k = "acquire"
                       THEN [base EXCEPT ![c] = Got(withAttempt(p, att, mr), hh)]
                       ELSE Deliver(p.target, hh, [base EXCEPT ![c] = EndCall(p, "released")])
  ELSE
    /\ availableBrowsers' = avail
    /\ busyBrowsers' = busy
    /\ waitQueue' = Append(waitQueue, wrapper(c))
    /\ proc' = [base EXCEPT ![c] =
                 [withAttempt(p, att, mr) EXCEPT !.pc = "waiting", !.op = k,
                                                 !.h = NoHandle]]

\* a caller calls pool.acquire(maxRetries)
acquire(c, mr) ==
  /\ idleCaller(c)
  /\ acquireSync(c, "acquire", 0, mr, availableBrowsers, busyBrowsers, connected,
                 [quiet EXCEPT ![c] = [IdleProc EXCEPT !.op = "acquire"]])
  /\ lastReleased' = NoHandle
  /\ UNCHANGED << initialized, managers, managerVars, engineVars, inits, crashes,
                  timeouts, cleanupRan, fetches >>
  /\ UNCHANGED << rh, reader >>

\* BrowserPool.acquire, timer callback: this.waitQueue.indexOf(resolve)
timeoutIndex(c) == IndexOf(waitQueue, resolve(c))

\* an acquire() whose timer never fires
timerNeverFires(c, n) == FALSE

\* the 60 s timer of a queued acquire() fires, and n timers are on record
timerFires(c, n) ==
  /\ proc[c].pc = "waiting"
  /\ timeouts' = n
  /\ LET index == timeoutIndex(c)
         q == IF index > 0 THEN Splice(waitQueue, index) ELSE waitQueue
     IN waitQueue' = [i \in 1 .. Len(q) |-> settle(q[i], c)]
  /\ proc' = [x \in Callers |->
                IF x = c THEN EndCall(proc[c], "acquire:timeout")
                ELSE [quiet[x] EXCEPT !.target = settle(@, c)]]
  /\ lastReleased' = NoHandle
  /\ UNCHANGED << initialized, managers, availableBrowsers, busyBrowsers,
                  managerVars, engineVars, inits, crashes, cleanupRan, fetches >>
  /\ UNCHANGED << rh, reader >>

\* a timer fires, up to MaxTimeouts times
timeout(c) == timeouts < MaxTimeouts /\ timerFires(c, timeouts + 1)

\* a timer fires, any number of times; the record stops at MaxTimeouts
timeoutAgain(c) ==
  timerFires(c, IF timeouts < MaxTimeouts THEN timeouts + 1 ELSE MaxTimeouts)

\* ------------------------------------------------------------- release()
\* BrowserPool.release: the error release(hh) throws before it changes
\* anything, "none" when it passes both checks
releaseError(hh) ==
  IF ~initialized THEN "release:not_initialized"
  ELSE IF hh \notin busyBrowsers THEN "release:not_in_use"
  ELSE "none"

\* The synchronous part of release(hh) by caller c.
releaseSync(c, hh, base) ==
  LET p == base[c]
      fail(r) == [base EXCEPT ![c] = EndCall(p, r)]
  IN
  IF releaseError(hh) # "none" THEN
    /\ UNCHANGED << availableBrowsers, busyBrowsers, waitQueue >>
    /\ proc' = fail(releaseError(hh))
    /\ lastReleased' = NoHandle
  ELSE IF Len(waitQueue) > 0 THEN
    LET e == Head(waitQueue) IN
    /\ waitQueue' = Tail(waitQueue)
    /\ availableBrowsers' = availableBrowsers
    /\ IF ~isConnected(hh)
       THEN /\ busyBrowsers' = busyDelete(busyBrowsers, hh)
            /\ lastReleased' = NoHandle
            /\ proc' = IF FindManager(hh) = 0
                       THEN fail("recover:manager_not_found")
                       ELSE [base EXCEPT ![c] =
                               [p EXCEPT !.pc = "closing", !.op = "release",
                                         !.h = hh, !.target = e]]
       ELSE /\ busyBrowsers' = busyAdd(busyDelete(busyBrowsers, hh), hh)
            /\ lastReleased' = hh
            /\ proc' = Deliver(e, hh, [base EXCEPT ![c] = EndCall(p, "released")])
  ELSE
    /\ waitQueue' = waitQueue
    /\ availableBrowsers' = Append(availableBrowsers, hh)
    /\ busyBrowsers' = busyDelete(busyBrowsers, hh)
    /\ lastReleased' = hh
    /\ proc' = [base EXCEPT ![c] = EndCall(p, "released")]

\* a caller that holds a handle calls pool.release(handle)
release(c) ==
  /\ proc[c].pc = "holding"
  /\ proc[c].mode = "raw"
  /\ releaseSync(c, proc[c].held, [quiet EXCEPT ![c] = [IdleProc EXCEPT !.op = "release"]])
  /\ UNCHANGED << initialized, managers, managerVars, engineVars, inits, crashes,
                  timeouts, cleanupRan, fetches >>
  /\ UNCHANGED << rh, reader >>

\* ------------------------------------------------------ recoverBrowser()
\* manager.restart(): the await of browser.close() in BrowserManager.close ends
recoverClose(c, ok) ==
  /\ proc[c].pc = "closing"
  /\ LET m == launchedBy[proc[c].h] IN
     /\ browser' = [browser EXCEPT ![m] = NoHandle]
     /\ IF ok
        THEN /\ launching' = [launching EXCEPT ![m] = TRUE]
             /\ proc' = [quiet EXCEPT ![c].pc = "launching"]
        ELSE /\ launching' = launching
             /\ proc' = [quiet EXCEPT ![c] = EndCall(proc[c], "recover:restart_failed")]
  /\ lastReleased' = NoHandle
  /\ UNCHANGED << poolVars, engineVars, inits, crashes, timeouts, cleanupRan, fetches >>
  /\ UNCHANGED << rh, reader >>

\* recoverBrowser: availableBrowsers[indexOf(browser)] = newBrowser
replaceAvailable(avail, old, new) ==
  LET i == IndexOf(avail, old) IN
  IF i # 0 THEN [avail EXCEPT ![i] = new] ELSE avail

\* recoverBrowser: busyBrowsers.delete(browser); busyBrowsers.add(newBrowser)
replaceBusy(busy, old, new) ==
  IF old \in busy THEN (busy \ {old}) \cup {new} ELSE busy

\* manager.restart(): the await of puppeteer.launch() in BrowserManager.launch
\* ends; on success recoverBrowser updates the pool and acquire() runs again
recoverLaunch(c, ok) ==
  /\ proc[c].pc = "launching"
  /\ LET p == proc[c]
         m == launchedBy[p.h]
         nh == NextHandle
     IN
     IF ok
     THEN /\ nh <= MaxHandles
          /\ browser' = [browser EXCEPT ![m] = nh]
          /\ launching' = [launching EXCEPT ![m] = FALSE]
          /\ connected' = connected \cup {nh}
          /\ launchedBy' = [launchedBy EXCEPT ![nh] = m]
          /\ LET avail == replaceAvailable(availableBrowsers, p.h, nh)
                 busy == replaceBusy(busyBrowsers, p.h, nh)
             IN IF p.op = "release"
                THEN acquireSync(c, "release_acquire", 0, DefaultMaxRetries,
                                 avail, busy, connected', quiet)
                ELSE acquireSync(c, p.op, p.attempt + 1, p.maxRetries,
                                 avail, busy, connected', quiet)
     ELSE /\ browser' = [browser EXCEPT ![m] = NoHandle]
          /\ launching' = [launching EXCEPT ![m] = FALSE]
          /\ proc' = [quiet EXCEPT ![c] = EndCall(p, "recover:restart_failed")]
          /\ UNCHANGED << availableBrowsers, busyBrowsers, waitQueue, engineVars >>
  /\ lastReleased' = NoHandle
  /\ UNCHANGED << initialized, managers, inits, crashes, timeouts, cleanupRan, fetches >>
  /\ UNCHANGED << rh, reader >>

\* ------------------------------------------------------------- cleanup()
\* close() returns: every initialize() call still in flight is marked as
\* having seen a close() return since it was called
closeReturns(base) ==
  [x \in Callers |->
     IF base[x].pc = "initializing" THEN [base[x] EXCEPT !.closed = TRUE] ELSE base[x]]

\* cleanup(), after `await Promise.all(closePromises)`: the pool is reset and
\* the call that ran cleanup() ends with r
cleanupReset(c, r, base) ==
  /\ managers' = << >>
  /\ availableBrowsers' = << >>
  /\ busyBrowsers' = {}
  /\ initialized' = FALSE
  /\ proc' = IF r = "closed"
             THEN closeReturns([base EXCEPT ![c] = EndCall(base[c], r)])
             ELSE [base EXCEPT ![c] = EndCall(base[c], r)]

cleanupResult(op) == IF op = "initialize" THEN "initialize:failed" ELSE "closed"

\* The synchronous part of cleanup(), up to `await Promise.all(closePromises)`:
\* the queue is dropped and close() is called on every manager.  The pool's
\* other fields stay as they are until the await is over, also when no
\* manager has a browser to close.  BrowserManager.close returns at once when
\* the manager has no browser, otherwise it awaits browser.close().
cleanupSync(c, op, brw, base) ==
  /\ waitQueue' = << >>
  /\ cleanupRan' = TRUE
  /\ UNCHANGED << managers, availableBrowsers, busyBrowsers, initialized >>
  /\ proc' = [base EXCEPT ![c] =
                [IdleProc EXCEPT !.pc = "cleanup", !.op = op, !.mgrs = base[c].mgrs,
                                 !.closing = { brw[managers[i]] : i \in 1 .. Len(managers) }
                                               \ {NoHandle}]]

\* cleanup() run by the catch clause of initialize(), itself a promise
\* callback: with no browser to close the awaits of cleanup() are over within
\* the same run of callbacks, before any caller gets to run
cleanupCaught(c, brw, base) ==
  IF \A i \in 1 .. Len(managers) : brw[managers[i]] = NoHandle
  THEN /\ waitQueue' = << >>
       /\ cleanupRan' = TRUE
       /\ cleanupReset(c, cleanupResult("initialize"), base)
  ELSE cleanupSync(c, "initialize", brw, base)

\* close() found no browser to close: `await Promise.all(closePromises)` is
\* over in a later promise callback, after the calls made in the same task
\* as close(); then cleanup() resets the pool
cleanupResume(c) ==
  /\ proc[c].pc = "cleanup"
  /\ proc[c].closing = {}
  /\ cleanupReset(c, cleanupResult(proc[c].op), quiet)
  /\ lastReleased' = NoHandle
  /\ UNCHANGED << waitQueue, managerVars, engineVars, inits, crashes, timeouts,
                  cleanupRan, fetches >>
  /\ UNCHANGED << rh, reader >>

\* BrowserManager.kill: the handles left running after kill() on a manager
\* whose browser field is b; kill() returns at once when the field is null
kill(conn, b) == IF b = NoHandle THEN conn ELSE conn \ {b}

\* cleanup(): the await of browser.close() on one handle ends.  close()'s
\* finally clause clears manager.browser before the catch handler calls
\* manager.kill(), so kill() finds no browser and returns; a handle whose
\* close failed stays as it was.  With the last close cleanup resets the pool.
cleanupClose(c, hh, ok) ==
  /\ proc[c].pc = "cleanup"
  /\ hh \in proc[c].closing
  /\ browser' = [browser EXCEPT ![launchedBy[hh]] = NoHandle]
  /\ connected' = IF ok THEN connected \ {hh}
                       ELSE kill(connected, browser'[launchedBy[hh]])
  /\ IF proc[c].closing = {hh}
     THEN cleanupReset(c, cleanupResult(proc[c].op), quiet)
     ELSE /\ UNCHANGED << managers, availableBrowsers, busyBrowsers, initialized >>
          /\ proc' = [quiet EXCEPT ![c].closing = @ \ {hh}]
  /\ lastReleased' = NoHandle
  /\ UNCHANGED << waitQueue, launching, launchedBy, inits, crashes, timeouts,
                  cleanupRan, fetches >>
  /\ UNCHANGED << rh, reader >>

\* a caller calls pool.close()
close(c) ==
  /\ idleCaller(c)
  /\ IF ~initialized
     THEN /\ proc' = closeReturns([quiet EXCEPT ![c] =
                                      [IdleProc EXCEPT !.result = "close:noop"]])
          /\ UNCHANGED << poolVars, cleanupRan >>
     ELSE cleanupSync(c, "close", browser, quiet)
  /\ lastReleased' = NoHandle
  /\ UNCHANGED << managerVars, engineVars, inits, crashes, timeouts, fetches >>
  /\ UNCHANGED << rh, reader >>

\* ---------------------------------------------------------- initialize()
\* the managers created by the k-th initialize() call that gets past the guard
newManagers(k) == [i \in 1 .. PoolSize |-> k * PoolSize + i]

\* an initialize() on an initialized pool that drops the managers
initializeAgainReset(c) ==
  /\ proc' = [quiet EXCEPT ![c] = [IdleProc EXCEPT !.result = "initialize:noop"]]
  /\ managers' = << >>
  /\ UNCHANGED << launching, inits >>

\* initialize(): if (this.initialized) return
initializeAgain(c) ==
  /\ proc' = [quiet EXCEPT ![c] = [IdleProc EXCEPT !.result = "initialize:noop"]]
  /\ UNCHANGED << managers, launching, inits >>

\* a caller calls pool.initialize(): managers are created and every
\* manager.launch() runs up to its await of puppeteer.launch(); at most limit
\* calls get past the guard
initializeUpTo(c, limit) ==
  /\ idleCaller(c)
  /\ IF initialized
     THEN initializeAgain(c)
     ELSE /\ inits < limit
          /\ inits' = inits + 1
          /\ managers' = newManagers(inits)
          /\ launching' = [m \in ManagerIds |->
                             IF m \in Range(newManagers(inits)) THEN TRUE ELSE launching[m]]
          /\ proc' = [x \in Callers |->
                        IF x = c
                        THEN [IdleProc EXCEPT !.pc = "initializing", !.op = "initialize",
                                              !.mgrs = newManagers(inits)]
                        ELSE [quiet[x] EXCEPT !.closed = FALSE]]
  /\ lastReleased' = NoHandle
  /\ UNCHANGED << initialized, availableBrowsers, busyBrowsers, waitQueue, browser,
                  engineVars, crashes, timeouts, cleanupRan, fetches >>
  /\ UNCHANGED << rh, reader >>

initialize(c) == initializeUpTo(c, MaxInits)

\* initialize(): the browsers array that Promise.all(launchPromises) yields
launchedBrowsers(ms, lb) ==
  [i \in 1 .. Len(ms) |-> CHOOSE hh \in Handles : lb[hh] = ms[i]]

\* an initialize() that records its handles as in use
initializeDoneBusy(c, browsers) ==
  /\ availableBrowsers' = << >>
  /\ busyBrowsers' = Range(browsers)
  /\ initialized' = TRUE
  /\ proc' = [quiet EXCEPT ![c] = EndCall(proc[c], "initialized")]

\* initialize(): this.availableBrowsers = [...browsers]; this.busyBrowsers = new Set()
initializeDone(c, browsers) ==
  /\ availableBrowsers' = browsers
  /\ busyBrowsers' = {}
  /\ initialized' = TRUE
  /\ proc' = [quiet EXCEPT ![c] = EndCall(proc[c], "initialized")]

\* the await of puppeteer.launch() in a launch() started by initialize() ends;
\* the last successful launch completes initialize(), the first failed one
\* rejects Promise.all and initialize() runs cleanup()
initLaunch(m, ok) ==
  /\ launching[m]
  /\ \A c \in Callers : ~(proc[c].pc = "launching" /\ launchedBy[proc[c].h] = m)
  /\ LET awaiting == { c \in Callers : proc[c].pc = "initializing"
                                        /\ m \in Range(proc[c].mgrs) }
         nh == NextHandle
     IN
     IF ok
     THEN /\ nh <= MaxHandles
          /\ browser' = [browser EXCEPT ![m] = nh]
          /\ launching' = [launching EXCEPT ![m] = FALSE]
          /\ connected' = connected \cup {nh}
          /\ launchedBy' = [launchedBy EXCEPT ![nh] = m]
          /\ IF \E c \in awaiting : \A m2 \in Range(proc[c].mgrs) \ {m} : ~launching[m2]
             THEN LET c == CHOOSE c \in awaiting : TRUE IN
                  /\ initializeDone(c, launchedBrowsers(proc[c].mgrs, launchedBy'))
                  /\ UNCHANGED << managers, waitQueue, cleanupRan >>
             ELSE /\ proc' = quiet
                  /\ UNCHANGED << poolVars, cleanupRan >>
     ELSE /\ browser' = [browser EXCEPT ![m] = NoHandle]
          /\ launching' = [launching EXCEPT ![m] = FALSE]
          /\ UNCHANGED engineVars
          /\ IF awaiting # {}
             THEN cleanupCaught(CHOOSE c \in awaiting : TRUE, browser', quiet)
             ELSE /\ proc' = quiet
                  /\ UNCHANGED << poolVars, cleanupRan >>
  /\ lastReleased' = NoHandle
  /\ UNCHANGED << inits, crashes, timeouts, fetches >>
  /\ UNCHANGED << rh, reader >>

\* ------------------------------------------------------------ the engine
\* a browser process dies or loses its connection: isConnected() turns false.
\* notify tells whether the engine delivers the 'disconnected' event, whose
\* handler (registered by BrowserManager.launch) clears manager.browser.
crash(hh, notify) ==
  /\ hh \in connected
  /\ crashes < MaxCrashes
  /\ crashes' = crashes + 1
  /\ connected' = connected \ {hh}
  /\ browser' = IF notify THEN [browser EXCEPT ![launchedBy[hh]] = NoHandle] ELSE browser
  /\ lastReleased' = NoHandle
  /\ proc' = quiet
  /\ UNCHANGED << poolVars, launching, launchedBy, inits, timeouts, cleanupRan,
                  fetches >>
  /\ UNCHANGED << rh, reader >>

\* ------------------------------------------------------- fetchAndParse()
\* feed URLs, told apart by their scheme
FeedUrls == {"https", "ftp"}

\* FeedFetcher.fetchFeed: /^https?:\/\//i.test(feedUrl)
hasHttpScheme(feedUrl) == feedUrl \in {"http", "https"}

\* a caller calls reader.fetchAndParse(url): the first attempt of
\* executeWithRetry starts with pool.acquire(); at most limit calls are made
fetchAndParseUpTo(c, feedUrl, limit) ==
  /\ idleCaller(c)
  /\ fetches < limit
  /\ fetches' = fetches + 1
  /\ IF ~isInitialized
     THEN /\ proc' = [quiet EXCEPT ![c] =
                        [IdleProc EXCEPT !.result = "fetchAndParse:not_initialized"]]
          /\ UNCHANGED << availableBrowsers, busyBrowsers, waitQueue >>
     ELSE acquireSync(c, "acquire", 0, DefaultMaxRetries, availableBrowsers,
                      busyBrowsers, connected,
                      [quiet EXCEPT ![c] = [IdleProc EXCEPT !.op = "acquire",
                                                           !.mode = "fetch", !.tries = 1,
                                                           !.url = feedUrl]])
  /\ lastReleased' = NoHandle
  /\ UNCHANGED << initialized, managers, managerVars, engineVars, inits, crashes,
                  timeouts, cleanupRan >>
  /\ UNCHANGED << rh, reader >>

fetchAndParse(c, feedUrl) == fetchAndParseUpTo(c, feedUrl, MaxFetches)

\* feedFetcher.fetchFeed() ends, with the feed text or with an error, and the
\* finally clause of the attempt calls pool.release(browser)
fetchFeed(c, ok) ==
  /\ proc[c].pc = "holding"
  /\ proc[c].mode = "fetch"
  /\ ok => hasHttpScheme(proc[c].url)
  /\ releaseSync(c, proc[c].held,
                 [quiet EXCEPT ![c] =
                    [IdleProc EXCEPT !.op = "release", !.tries = proc[c].tries,
                                     !.url = proc[c].url,
                                     !.mode = IF ok THEN "fetched_ok" ELSE "fetched_err"]])
  /\ UNCHANGED << initialized, managers, managerVars, engineVars, inits, crashes,
                  timeouts, cleanupRan, fetches >>
  /\ UNCHANGED << rh, reader >>

\* executeWithRetry: the delay after a failed attempt is over and the next
\* attempt starts with pool.acquire()
retry(c) ==
  /\ proc[c].pc = "sleeping"
  /\ acquireSync(c, "acquire", 0, DefaultMaxRetries, availableBrowsers,
                 busyBrowsers, connected,
                 [quiet EXCEPT ![c] = [IdleProc EXCEPT !.op = "acquire", !.mode = "fetch",
                                                      !.tries = proc[c].tries + 1,
                                                      !.url = proc[c].url]])
  /\ lastReleased' = NoHandle
  /\ UNCHANGED << initialized, managers, managerVars, engineVars, inits, crashes,
                  timeouts, cleanupRan, fetches >>
  /\ UNCHANGED << rh, reader >>

\* ------------------------------------------------------------------ Next
Next ==
  \/ \E c \in Callers : initialize(c)
  \/ \E m \in ManagerIds, ok \in BOOLEAN : initLaunch(m, ok)
  \/ \E c \in Callers, mr \in {1, DefaultMaxRetries} : acquire(c, mr)
  \/ \E c \in Callers : timeout(c)
  \/ \E c \in Callers : release(c)
  \/ \E c \in Callers, ok \in BOOLEAN : recoverClose(c, ok)
  \/ \E c \in Callers, ok \in BOOLEAN : recoverLaunch(c, ok)
  \/ \E c \in Callers : close(c)
  \/ \E c \in Callers : cleanupResume(c)
  \/ \E c \in Callers, hh \in Handles, ok \in BOOLEAN : cleanupClose(c, hh, ok)
  \/ \E hh \in Handles, notify \in BOOLEAN : crash(hh, notify)
  \/ \E c \in Callers : fetchAndParse(c, "https")
  \/ \E c \in Callers, ok \in BOOLEAN : fetchFeed(c, ok)
  \/ \E c \in Callers : retry(c)

Spec == Init /\ [][Next]_vars

\* the pool used by callers that may call initialize() a second time, while
\* the first call is in flight or after a close(); no engine dies, every
\* launch and every close succeeds and no timer fires
ReinitNext ==
  \/ \E c \in Callers : initializeUpTo(c, MaxInits + 1)
  \/ \E m \in ManagerIds : initLaunch(m, TRUE)
  \/ \E c \in Callers : acquire(c, DefaultMaxRetries)
  \/ \E c \in Callers : release(c)
  \/ \E c \in Callers : close(c)
  \/ \E c \in Callers : cleanupResume(c)
  \/ \E c \in Callers, hh \in Handles : cleanupClose(c, hh, TRUE)

ReinitSpec == Init /\ [][ReinitNext]_vars

\* fetchAndParse calls with good and bad URLs on a pool whose engines stay
\* up and that is not closed
AttemptNext ==
  \/ \E c \in Callers : initialize(c)
  \/ \E m \in ManagerIds : initLaunch(m, TRUE)
  \/ \E c \in Callers, feedUrl \in FeedUrls : fetchAndParseUpTo(c, feedUrl, MaxLiveFetches)
  \/ \E c \in Callers, ok \in BOOLEAN : fetchFeed(c, ok)
  \/ \E c \in Callers : retry(c)

AttemptSpec == Init /\ [][AttemptNext]_vars

\* the pool, initialized by one initialize() call, used by callers that
\* acquire and release, with no engine dying, no close() and no timer firing;
\* every caller that holds a handle releases it in the end
AcquireNext ==
  \/ \E c \in Callers : initializeUpTo(c, 1)
  \/ \E m \in ManagerIds : initLaunch(m, TRUE)
  \/ \E c \in Callers : acquire(c, DefaultMaxRetries)
  \/ \E c \in Callers : release(c)

AcquireSpec ==
  Init /\ [][AcquireNext]_vars /\ \A c \in Callers : WF_vars(release(c))

\* the pool used by fetchAndParse calls while engines die and close() runs.
\* Navigation ends, the delay before a retry ends, the timer of a queued
\* acquire() fires, and the close and the launch of a recovery end.
FetchNext ==
  \/ \E c \in Callers : initialize(c)
  \/ \E m \in ManagerIds : initLaunch(m, TRUE)
  \/ \E c \in Callers : fetchAndParseUpTo(c, "https", MaxLiveFetches)
  \/ \E c \in Callers, ok \in BOOLEAN : fetchFeed(c, ok)
  \/ \E c \in Callers : retry(c)
  \/ \E c \in Callers : timeoutAgain(c)
  \/ \E c \in Callers, ok \in BOOLEAN : recoverClose(c, ok)
  \/ \E c \in Callers, ok \in BOOLEAN : recoverLaunch(c, ok)
  \/ \E c \in Callers : close(c)
  \/ \E c \in Callers : cleanupResume(c)
  \/ \E c \in Callers, hh \in Handles : cleanupClose(c, hh, TRUE)
  \/ \E hh \in Handles, notify \in BOOLEAN : crash(hh, notify)

FetchSpec ==
  /\ Init /\ [][FetchNext]_vars
  /\ \A c \in Callers :
       /\ WF_vars(\E ok \in BOOLEAN : fetchFeed(c, ok))
       /\ WF_vars(retry(c))
       /\ WF_vars(timeoutAgain(c))
       /\ WF_vars(\E ok \in BOOLEAN : recoverClose(c, ok))
       /\ WF_vars(\E ok \in BOOLEAN : recoverLaunch(c, ok))

\* ------------------------------------------- RetryHandler.executeWithRetry
Min(a, b) == IF a < b THEN a ELSE b

poolState == << poolVars, managerVars, engineVars, inits, crashes, timeouts,
               cleanupRan, fetches, lastReleased, proc >>

\* RetryHandler constructor: the options of the handlers that are tried
RetryOptions == [initialDelay : 1 .. MaxDelay, multiplier : 2 .. 3,
                 maxDelay : (MaxDelay - 1) .. MaxDelay]

\* an attempt counter that is not incremented
nextAttemptStuck(att) == att

\* executeWithRetry: attempt++
nextAttempt(att) == att + 1

\* executeWithRetry: attempt <= maxAttempts
loopContinues(att, n) == att <= n

\* executeWithRetry: attempt === maxAttempts
lastAttempt(att, n) == att = n

\* a validation that lets zero attempts through
invalidAttemptsNegative(n) == n < 0

\* executeWithRetry: maxAttempts < 1
invalidAttempts(n) == n < 1

\* handler.executeWithRetry(operation, n) is called on a handler with the
\* given options: n is validated and the first attempt invokes the operation
executeWithRetry(n, initialDelay, multiplier, maxDelay) ==
  /\ rh.pc = "idle"
  /\ rh' = IF invalidAttempts(n)
           THEN [IdleRetry EXCEPT !.pc = "threw", !.n = n, !.out = ValidationError]
           ELSE IF loopContinues(1, n)
                THEN [IdleRetry EXCEPT !.pc = "running", !.n = n, !.attempt = 1,
                                       !.currentDelay = initialDelay,
                                       !.initialDelay = initialDelay,
                                       !.multiplier = multiplier, !.maxDelay = maxDelay]
                ELSE [IdleRetry EXCEPT !.pc = "threw", !.n = n]
  /\ UNCHANGED << poolState, reader >>

\* the operation invoked by the current attempt returns (ok) or throws v
operationEnds(ok, v) ==
  /\ rh.pc = "running"
  /\ LET called == [rh EXCEPT !.calls = Append(@, [ok |-> ok, v |-> v])] IN
     rh' = IF ok
           THEN [called EXCEPT !.pc = "returned", !.out = v]
           ELSE IF lastAttempt(rh.attempt, rh.n)
                THEN [called EXCEPT !.pc = "threw", !.lastError = toError(v),
                                    !.out = toError(v)]
                ELSE [called EXCEPT !.pc = "delaying", !.lastError = toError(v),
                                    !.sleeps = Append(@, rh.currentDelay)]
  /\ UNCHANGED << poolState, reader >>

\* the delay after a failed attempt is over: the next delay is computed and
\* the next attempt invokes the operation
delayEnds ==
  /\ rh.pc = "delaying"
  /\ LET slept == [rh EXCEPT !.currentDelay = Min(@ * rh.multiplier, rh.maxDelay),
                             !.attempt = nextAttempt(@)]
     IN rh' = IF loopContinues(slept.attempt, rh.n)
              THEN [slept EXCEPT !.pc = "running"]
              ELSE [slept EXCEPT !.pc = "threw", !.out = rh.lastError]
  /\ UNCHANGED << poolState, reader >>

RetryNext ==
  \/ \E n \in (-1) .. MaxAttempts, o \in RetryOptions :
       executeWithRetry(n, o.initialDelay, o.multiplier, o.maxDelay)
  \/ \E v \in ReturnValues : operationEnds(TRUE, v)
  \/ \E v \in ThrownValues : operationEnds(FALSE, v)
  \/ delayEnds

RetrySpec == Init /\ [][RetryNext]_vars

\* ------------------------------------------------- BrowserManager.launch()
\* Callers that use one BrowserManager directly.  A caller in launch() is
\* either in the polling loop (pc "launchWait") or at the await of
\* puppeteer.launch() (pc "launchAwait"); mgrs holds its manager.

\* what a caller has left of a call that is over is dropped with the next step
settled == [x \in Callers |-> IF proc[x].pc = "idle" THEN IdleProc ELSE proc[x]]

\* a launch() that does not look at the launching flag
launchUnderwayIgnored(m) == FALSE

\* BrowserManager.launch: if (this.launching)
launchUnderway(m) == launching[m]

\* BrowserManager.launch: this.browser && this.browser.isConnected()
browserLive(m) == browser[m] # NoHandle /\ isConnected(browser[m])

\* launch() from the check for a live browser on: the browser is returned
\* with outcome r, or this.launching is set and puppeteer.launch() awaited
launchCheck(c, m, r, base) ==
  IF browserLive(m)
  THEN /\ proc' = [base EXCEPT ![c] = [IdleProc EXCEPT !.held = browser[m],
                                                       !.mgrs = << m >>, !.result = r]]
       /\ launching' = launching
  ELSE /\ proc' = [base EXCEPT ![c] =
                     [IdleProc EXCEPT !.pc = "launchAwait", !.op = "launch",
                                      !.mgrs = << m >>]]
       /\ launching' = [launching EXCEPT ![m] = TRUE]

\* a caller calls manager.launch()
launch(c, m) ==
  /\ idleCaller(c)
  /\ IF launchUnderway(m)
     THEN /\ proc' = [settled EXCEPT ![c] =
                        [IdleProc EXCEPT !.pc = "launchWait", !.op = "launch",
                                         !.mgrs = << m >>]]
          /\ launching' = launching
     ELSE launchCheck(c, m, "launch:existing", settled)
  /\ UNCHANGED << poolVars, browser, engineVars, inits, crashes, timeouts,
                  cleanupRan, fetches, lastReleased, rh, reader >>

\* the polling loop of a waiting launch() finds this.launching false
launchWake(c) ==
  /\ proc[c].pc = "launchWait"
  /\ ~launching[proc[c].mgrs[1]]
  /\ launchCheck(c, proc[c].mgrs[1], "launch:waited", settled)
  /\ UNCHANGED << poolVars, browser, engineVars, inits, crashes, timeouts,
                  cleanupRan, fetches, lastReleased, rh, reader >>

\* the await of puppeteer.launch() in launch() ends
launchDone(c, ok) ==
  /\ proc[c].pc = "launchAwait"
  /\ LET m == proc[c].mgrs[1]
         nh == NextHandle
     IN
     /\ launching' = [launching EXCEPT ![m] = FALSE]
     /\ IF ok
        THEN /\ nh <= MaxHandles
             /\ browser' = [browser EXCEPT ![m] = nh]
             /\ connected' = connected \cup {nh}
             /\ launchedBy' = [launchedBy EXCEPT ![nh] = m]
             /\ proc' = [settled EXCEPT ![c] =
                           [IdleProc EXCEPT !.held = nh, !.result = "launch:launched"]]
        ELSE /\ browser' = [browser EXCEPT ![m] = NoHandle]
             /\ UNCHANGED engineVars
             /\ proc' = [settled EXCEPT ![c] = [IdleProc EXCEPT !.result = "launch:failed"]]
  /\ UNCHANGED << poolVars, inits, crashes, timeouts, cleanupRan, fetches,
                  lastReleased, rh, reader >>

\* a browser of a directly used manager dies
managerCrash(hh, notify) ==
  /\ hh \in connected
  /\ crashes < MaxCrashes
  /\ crashes' = crashes + 1
  /\ connected' = connected \ {hh}
  /\ browser' = IF notify THEN [browser EXCEPT ![launchedBy[hh]] = NoHandle] ELSE browser
  /\ proc' = settled
  /\ UNCHANGED << poolVars, launching, launchedBy, inits, timeouts, cleanupRan,
                  fetches, lastReleased, rh, reader >>

ManagerNext ==
  \/ \E c \in Callers, m \in Range(newManagers(0)) : launch(c, m)
  \/ \E c \in Callers : launchWake(c)
  \/ \E c \in Callers, ok \in BOOLEAN : launchDone(c, ok)
  \/ \E hh \in Handles, notify \in BOOLEAN : managerCrash(hh, notify)

ManagerSpec == Init /\ [][ManagerNext]_vars

\* --------------------------------------------------- FeedFetcher.fetchFeed
Threw(e) == [NoOutcome EXCEPT !.kind = "threw", !.error = e]

\* response.status() values on both sides of the two limits
Statuses == {199, 200, 302, 399, 400, 404}

\* response.text(): it throws, or yields no text, or a text
Contents ==
  {NoContent, [kind |-> "threw", text |-> << >>]}
    \cup [kind : {"text"}, text : {<< >>, <<" ", " ">>, <<" ", "a", " ">>, <<"a">>}]

\* what the engine does with browser.newPage(), page.goto() and the response
Navigations ==
  [kind : {"newPage:threw", "goto:threw", "goto:null"}, status : {0}, content : {NoContent}]
    \cup [kind : {"response"}, status : Statuses, content : Contents]

\* a status test that lets 400 through
statusRejectedAbove(status) == status < 200 \/ status > 400

\* fetchFeed: status < 200 || status >= 400
statusRejected(status) == status < 200 \/ status >= 400

\* fetchFeed called with an acquired handle: the text returned or the error thrown
fetchFeedResult(feedUrl, nav) ==
  IF feedUrl = ""
  THEN Threw(FeedFetchError("Feed URL is required", feedUrl))
  ELSE IF ~hasHttpScheme(feedUrl)
  THEN Threw(FeedFetchError("Invalid feed URL: must use HTTP or HTTPS protocol", feedUrl))
  ELSE IF nav.kind \in {"newPage:threw", "goto:threw"}
  THEN Threw(FeedFetchError("Failed to fetch feed: engine error", feedUrl))
  ELSE IF nav.kind = "goto:null"
  THEN Threw(FeedFetchError("Failed to navigate to feed URL: no response received", feedUrl))
  ELSE IF statusRejected(nav.status)
  THEN Threw(FeedFetchError("Failed to fetch feed: HTTP status", feedUrl))
  ELSE IF nav.content.kind = "threw"
  THEN Threw(FeedFetchError("Failed to fetch feed: engine error", feedUrl))
  ELSE IF nav.content.kind = "null" \/ nav.content.text = << >>
            \/ Len(trim(nav.content.text)) = 0
  THEN Threw(FeedFetchError("Feed content is empty", feedUrl))
  ELSE [NoOutcome EXCEPT !.kind = "content", !.content = nav.content.text]

\* one fetchFeed call from start to end
fetchFeedRuns(feedUrl, nav) ==
  /\ reader.pc = "idle"
  /\ reader' = [IdleReader EXCEPT !.pc = "fetched", !.feedUrl = feedUrl, !.nav = nav,
                                  !.out = fetchFeedResult(feedUrl, nav)]
  /\ UNCHANGED << poolState, rh >>

\* ------------------------------------------------------ ItemParser.parseItem
\* an xml2js field: absent, an empty array, an array whose first element is
\* not a string, or an array whose first element is the text
Absent == [kind |-> "absent", text |-> << >>]
Text(t) == [kind |-> "text", text |-> t]

\* the entries that extractRawItems hands to parseItems
RawItems ==
  [title : {Absent, [kind |-> "object", text |-> << >>], Text(<<"a">>),
            Text(<<"b", "-">>), Text(<<"-">>), Text(<<" ">>)},
   link : {Absent, [kind |-> "empty", text |-> << >>], Text(<<"x">>),
           Text(<<"?", "p", "=", "1">>), Text(<<" ", "x">>)},
   pubDate : {Absent, Text(<<"1">>), Text(<<"z">>)},
   contentEncoded : {Absent, Text(<<" ", "m", "a", "M", "h">>)},
   description : {Absent}]

\* RssReaderConfig: the patterns that cleanTitle is given
Configs == [titlePrefixPattern : {"undefined", "^-"}, titleSuffixPattern : {"undefined", "-$"}]

\* extractFirstValue without the trim
extractFirstValueUntrimmed(value) ==
  IF value.kind \in {"absent", "empty"} THEN NoText
  ELSE IF value.kind # "text" THEN NoText
  ELSE Some(value.text)

\* ItemParser.extractFirstValue
extractFirstValue(value) ==
  IF value.kind \in {"absent", "empty"} THEN NoText
  ELSE IF value.kind # "text" THEN NoText
  ELSE Some(trim(value.text))

\* cleaned.replace(pattern, '') for the patterns of Configs
replacePattern(s, pattern) ==
  IF pattern = "^-" /\ s # << >> /\ Head(s) = "-" THEN Tail(s)
  ELSE IF pattern = "-$" /\ s # << >> /\ Last(s) = "-" THEN Front(s)
  ELSE s

\* replace(/\s+/g, ' ')
RECURSIVE collapseSpaces(_)
collapseSpaces(s) ==
  IF Len(s) < 2 THEN s
  ELSE IF s[1] = " " /\ s[2] = " " THEN collapseSpaces(Tail(s))
  ELSE << s[1] >> \o collapseSpaces(Tail(s))

\* TitleCleaner.cleanTitle
cleanTitle(title, options) ==
  IF title = << >> THEN << >>
  ELSE LET unprefixed == IF options.prefixPattern # "undefined"
                         THEN replacePattern(title, options.prefixPattern) ELSE title
           cleaned == IF options.suffixPattern # "undefined"
                      THEN replacePattern(unprefixed, options.suffixPattern) ELSE unprefixed
       IN collapseSpaces(trim(cleaned))

\* new Date(text): the texts "1" and "2" are dates, every other text is not
newDate(t) ==
  IF t = <<"1">> THEN [type |-> "Date", valid |-> TRUE, time |-> 1]
  ELSE IF t = <<"2">> THEN [type |-> "Date", valid |-> TRUE, time |-> 2]
  ELSE [type |-> "Date", valid |-> FALSE, time |-> 0]

\* DateParser.parseDate
parseDate(dateString) ==
  IF dateString = << >> THEN NoDate
  ELSE LET trimmedDate == trim(dateString)
       IN IF Len(trimmedDate) = 0 THEN NoDate
          ELSE IF ~newDate(trimmedDate).valid THEN NoDate
          ELSE newDate(trimmedDate)

\* the tokens of a content text that are <a> elements
Anchors == {"m", "M", "h", "e", "n"}

\* $(element).attr('href') of an <a> token: "m" and "h" carry that href, "M"
\* carries the href " m ", "e" a blank href and "n" has no href attribute
attrHref(t) ==
  IF t = "M" THEN Some(<<" ", "m", " ">>)
  ELSE IF t = "e" THEN Some(<<" ">>)
  ELSE IF t = "n" THEN NoText
  ELSE Some(<< t >>)

\* a set of seen links that never reports a link
linkSeenNever(link, seen) == FALSE

\* extractLinks: seen.has(link)
linkSeen(link, seen) == link \in seen

\* extractLinks: links.filter(link => !seen.has(link) ...) with seen growing
RECURSIVE unique(_, _)
unique(s, seen) ==
  IF s = << >> THEN << >>
  ELSE IF linkSeen(Head(s), seen) THEN unique(Tail(s), seen)
  ELSE << Head(s) >> \o unique(Tail(s), seen \cup {Head(s)})

\* extractLinks: $('a').each(...) pushes href.trim() of every anchor whose
\* href is there and is not blank
RECURSIVE hrefs(_)
hrefs(html) ==
  IF html = << >> THEN << >>
  ELSE IF /\ Head(html) \in Anchors
          /\ ~falsy(attrHref(Head(html)))
          /\ Len(trim(attrHref(Head(html)).text)) > 0
       THEN << trim(attrHref(Head(html)).text) >> \o hrefs(Tail(html))
       ELSE hrefs(Tail(html))

\* LinkExtractor.extractLinks
extractLinks(html) ==
  IF html = << >> THEN << >> ELSE unique(hrefs(html), {})

\* an array of strings
RECURSIVE strings(_)
strings(s) == IF s = << >> THEN << >> ELSE << Some(Head(s)) >> \o strings(Tail(s))

\* the digits that a text starts with
RECURSIVE digits(_)
digits(s) ==
  IF s # << >> /\ Head(s) \in {"0", "1", "2"} THEN << Head(s) >> \o digits(Tail(s)) ELSE << >>

\* UrlParser.extractItemId with the default pattern /[?&]p=(\d+)/
extractItemId(url) ==
  LET at(i) == /\ url[i] \in {"?", "&"} /\ url[i + 1] = "p" /\ url[i + 2] = "="
               /\ url[i + 3] \in {"0", "1", "2"}
      starts == { i \in 1 .. (Len(url) - 3) : at(i) }
  IN IF starts = {} THEN NoText
     ELSE LET first == CHOOSE i \in starts : \A j \in starts : i <= j
          IN Some(digits(SubSeq(url, first + 3, Len(url))))

Failed(e) == [ok |-> FALSE, item |-> NoItem, error |-> e]

\* ItemParser.parseItem; the entries have no field beyond the standard ones,
\* so extractMetadata yields no key and metadata is undefined
parseItem(rawItem, feedUrl, config) ==
  LET rawTitle == extractFirstValue(rawItem.title)
      title == cleanTitle(rawTitle.text, [prefixPattern |-> config.titlePrefixPattern,
                                          suffixPattern |-> config.titleSuffixPattern])
      link == extractFirstValue(rawItem.link)
      pubDateString == extractFirstValue(rawItem.pubDate)
      publishedAt == parseDate(pubDateString.text)
      encoded == extractFirstValue(rawItem.contentEncoded)
      description == extractFirstValue(rawItem.description)
      rawContent == IF ~falsy(encoded) THEN encoded.text
                    ELSE IF ~falsy(description) THEN description.text
                    ELSE << >>
  IN IF falsy(rawTitle)
     THEN Failed(ParseError("Item is missing required field: title", feedUrl, Some(<< "Unknown" >>)))
     ELSE IF falsy(link)
     THEN Failed(ParseError("Item is missing required field: link", feedUrl, Some(title)))
     ELSE IF falsy(pubDateString)
     THEN Failed(ParseError("Item is missing required field: pubDate", feedUrl, Some(title)))
     ELSE IF publishedAt.type = "undefined"
     THEN Failed(ParseError("Failed to parse publication date", feedUrl, Some(title)))
     ELSE [ok |-> TRUE, error |-> NoError,
           item |-> [title |-> Some(title), link |-> link, publishedAt |-> publishedAt,
                     links |-> Array(strings(extractLinks(rawContent))),
                     itemId |-> extractItemId(link.text),
                     rawContent |-> IF Len(rawContent) > 0 THEN Some(rawContent) ELSE NoText,
                     metadata |-> "undefined"]]

\* ----------------------------------------------------- ItemValidator.validate
\* a title check that rejects nothing
titleUnchecked(title) == FALSE

\* validate: !item.title || typeof item.title !== 'string' ||
\* item.title.trim().length === 0; the same test is made of item.link
titleInvalid(title) ==
  falsy(title) \/ title.type # "string" \/ Len(trim(title.text)) = 0

\* ItemValidator.validate: the ParseError thrown, NoError when it returns
validate(item) ==
  IF titleInvalid(item.title)
  THEN ParseError("Item validation failed: title is required and must be a non-empty string",
                  "undefined", item.title)
  ELSE IF falsy(item.link) \/ item.link.type # "string" \/ Len(trim(item.link.text)) = 0
  THEN ParseError("Item validation failed: link is required and must be a non-empty string",
                  "undefined", item.title)
  ELSE IF item.publishedAt.type # "Date"
  THEN ParseError("Item validation failed: publishedAt is required and must be a Date object",
                  "undefined", item.title)
  ELSE IF ~item.publishedAt.valid
  THEN ParseError("Item validation failed: publishedAt must be a valid Date",
                  "undefined", item.title)
  ELSE IF item.links.type # "array"
  THEN ParseError("Item validation failed: links must be an array",
                  "undefined", item.title)
  ELSE IF \E i \in 1 .. Len(item.links.elems) : item.links.elems[i].type # "string"
  THEN ParseError("Item validation failed: all links must be strings",
                  "undefined", item.title)
  ELSE IF item.itemId.type \notin {"undefined", "string"}
  THEN ParseError("Item validation failed: itemId must be a string if provided",
                  "undefined", item.title)
  ELSE IF item.rawContent.type \notin {"undefined", "string"}
  THEN ParseError("Item validation failed: rawContent must be a string if provided",
                  "undefined", item.title)
  ELSE IF item.metadata \notin {"undefined", "object"}
  THEN ParseError("Item validation failed: metadata must be a non-null object if provided",
                  "undefined", item.title)
  ELSE NoError

\* an isValid that never says no
isValidAlways(item) == TRUE

\* ItemValidator.isValid: try { validate(item); return true } catch { return false }
isValid(item) == validate(item) = NoError

\* the items that validate is tried on
ItemInputs ==
  [title : {NoText, NotString, Some(<< >>), Some(<<" ">>), Some(<<"a">>)},
   link : {NoText, Some(<<" ">>), Some(<<"x">>)},
   publishedAt : {NoDate, NotDate, newDate(<<"z">>), newDate(<<"1">>)},
   links : {NoArray, Array(<< >>), Array(<< Some(<<"m">>) >>),
            Array(<< Some(<<"m">>), NotString >>)},
   itemId : {NoText, Some(<<"1">>), NotString},
   rawContent : {NoText, Some(<<"a">>), NotString},
   metadata : {"undefined", "object", "null", "array", "string"}]

\* one validate call and one isValid call on the same item
validateItem(item) ==
  /\ reader.pc = "idle"
  /\ reader' = [IdleReader EXCEPT
                  !.pc = "validated", !.item = item,
                  !.out = [NoOutcome EXCEPT
                             !.kind = IF validate(item) = NoError THEN "returned" ELSE "threw",
                             !.error = validate(item),
                             !.valid = isValid(item)]]
  /\ UNCHANGED << poolState, rh >>

\* the content texts that extractLinks is tried on
Htmls == UNION { [1 .. n -> Anchors \cup {"a", " "}] : n \in 0 .. MaxHtml }

\* one extractLinks call
extractLinksRuns(html) ==
  /\ reader.pc = "idle"
  /\ reader' = [IdleReader EXCEPT
                  !.pc = "extracted", !.html = html,
                  !.out = [NoOutcome EXCEPT !.kind = "links", !.links = extractLinks(html)]]
  /\ UNCHANGED << poolState, rh >>

\* ------------------------------------------------------ RssReader.parseItems
\* an insertion at the front
unshiftItem(items, item) == << item >> \o items

\* items.push(item)
pushItem(items, item) == Append(items, item)

\* the try block of parseItems for one entry: the item, or the error caught
tryItem(rawItem, feedUrl, config) ==
  LET parsed == parseItem(rawItem, feedUrl, config)
  IN IF parsed.ok THEN [item |-> parsed.item, error |-> validate(parsed.item)]
     ELSE [item |-> NoItem, error |-> parsed.error]

\* the for loop of parseItems over the entries that are left
RECURSIVE parseLoop(_, _, _, _)
parseLoop(rawItems, feedUrl, config, acc) ==
  IF rawItems = << >> THEN acc
  ELSE LET tried == tryItem(Head(rawItems), feedUrl, config)
           next == IF tried.error = NoError
                   THEN [acc EXCEPT !.items = pushItem(@, tried.item)]
                   ELSE [acc EXCEPT !.errors = Append(@, tried.error)]
       IN parseLoop(Tail(rawItems), feedUrl, config, next)

\* a test that any failure is fatal
anyFailed(items, errors) == Len(errors) > 0

\* parseItems: items.length === 0 && errors.length > 0
allFailed(items, errors) == Len(items) = 0 /\ Len(errors) > 0

\* RssReader.parseItems: the items returned or the error thrown
parseItems(rawItems, feedUrl, config) ==
  LET acc == parseLoop(rawItems, feedUrl, config, [items |-> << >>, errors |-> << >>])
  IN IF allFailed(acc.items, acc.errors)
     THEN Threw(acc.errors[1])
     ELSE [NoOutcome EXCEPT !.kind = "items", !.items = acc.items]

\* ------------------------------------------------ RssReader.deduplicateItems
\* a set that remembers nothing
seenForgets(seen, link) == FALSE

\* seen.has(item.link)
seenHas(seen, link) == link \in seen

RECURSIVE dedupLoop(_, _)
dedupLoop(items, seen) ==
  IF items = << >> THEN << >>
  ELSE IF seenHas(seen, Head(items).link) THEN dedupLoop(Tail(items), seen)
  ELSE << Head(items) >> \o dedupLoop(Tail(items), seen \cup {Head(items).link})

deduplicateItems(items) == dedupLoop(items, {})

\* The fetched texts as xml2js sees them.  parse is "error" for a text that
\* is not well-formed XML, "null" for a text without a root element, whose
\* parsed document is null, and "object" for a document; item is the item
\* (or entry) array of the document, absent when the feed has no entry and
\* of one element or more otherwise.
Xmls ==
  { [parse |-> parse, item |-> NoArray] : parse \in {"error", "null", "object"} }
  \cup { [parse |-> "object", item |-> Array(rawItems)] :
           rawItems \in UNION { [1 .. n -> RawItems] : n \in 1 .. MaxEntries } }

\* RssReader.parseXml: the InvalidFeedError the promise is rejected with,
\* without the parser's own message, or NoError when it resolves
parseXml(xml, feedUrl) ==
  IF xml.parse = "error" THEN InvalidFeedError("Failed to parse XML", feedUrl)
  ELSE NoError

\* RssReader.extractRawItems: reading a property of a null document throws
\* inside the try block; an absent item array is no feed structure
extractRawItems(feedData, feedUrl) ==
  IF feedData.parse = "null"
  THEN Threw(InvalidFeedError("Failed to extract items from feed", feedUrl))
  ELSE IF feedData.item.type = "array"
  THEN [NoOutcome EXCEPT !.kind = "rawItems", !.items = feedData.item.elems]
  ELSE Threw(InvalidFeedError("Feed does not contain valid RSS or Atom structure", feedUrl))

\* fetchAndParse after the fetch returned: the text is parsed as XML, its
\* entries are extracted, parsed, validated and deduplicated into the Feed
parseFetched(feedUrl, config, xml) ==
  /\ reader.pc = "idle"
  /\ hasHttpScheme(feedUrl)
  /\ LET failed == parseXml(xml, feedUrl)
         rawItems == extractRawItems(xml, feedUrl)
         parsed == parseItems(rawItems.items, feedUrl, config)
     IN reader' = [IdleReader EXCEPT
                     !.pc = "parsed", !.feedUrl = feedUrl, !.config = config,
                     !.rawItems = IF failed = NoError THEN rawItems.items ELSE << >>,
                     !.out = IF failed # NoError THEN Threw(failed)
                             ELSE IF rawItems.kind = "threw" THEN rawItems
                             ELSE IF parsed.kind = "threw" THEN parsed
                             ELSE [NoOutcome EXCEPT !.kind = "feed",
                                                    !.items = deduplicateItems(parsed.items)]]
  /\ UNCHANGED << poolState, rh >>

\* a reader that made its call takes no further step
ReaderNext ==
  \/ /\ reader.pc = "idle"
     /\ \E feedUrl \in FeedUrls, nav \in Navigations : fetchFeedRuns(feedUrl, nav)
  \/ /\ reader.pc = "idle"
     /\ \E feedUrl \in FeedUrls, config \in Configs, xml \in Xmls :
          parseFetched(feedUrl, config, xml)
  \/ /\ reader.pc = "idle"
     /\ \E item \in ItemInputs : validateItem(item)
  \/ /\ reader.pc = "idle"
     /\ \E html \in Htmls : extractLinksRuns(html)

ReaderSpec == Init /\ [][ReaderNext]_vars

\* ================================================================ claims
holders(hh) == { c \in Callers : proc[c].held = hh }
inAvailable(hh) == \E i \in 1 .. Len(availableBrowsers) : availableBrowsers[i] = hh

\* the queued callbacks whose acquire() is still pending, oldest first
liveQueue == SelectSeq(waitQueue, LAMBDA e : ~e.settled)

\* C1: a handle given to one caller is never given to a second caller before
\* the first one releases it: no two callers own the same handle
C1_DistinctHandles ==
  \A c1, c2 \in Callers :
    (c1 # c2 /\ proc[c1].held # NoHandle) => proc[c1].held # proc[c2].held

\* every handle of the pool is owned by a caller, one of them by hand-off
\* from a release() that found that caller waiting
C1_Witness ==
  /\ Cardinality({ c \in Callers : proc[c].pc = "holding" }) = PoolSize
  /\ Cardinality(busyBrowsers) = PoolSize
  /\ \E c \in Callers : proc[c].held = lastReleased /\ proc[c].result = "acquired"

\* C2: a release is never lost: the handle of a release() that completed is in
\* the available set or owned by a caller, and no handle is recorded as
\* in-use while no caller owns it
C2_ReleaseNeverLost ==
  /\ lastReleased # NoHandle =>
       (inAvailable(lastReleased) \/ Cardinality(holders(lastReleased)) = 1)
  /\ \A hh \in busyBrowsers : holders(hh) # {}

\* C3: waiters are served first in, first out: a release() that finds callers
\* waiting hands its handle to the one that has waited longest
C3_WaitersServedFifo ==
  [][(/\ lastReleased' # NoHandle
      /\ liveQueue # << >>
      /\ proc[liveQueue[1].owner].op = "acquire")
     => proc'[liveQueue[1].owner].held = lastReleased']_vars

\* C4: an acquire() that timed out has left the wait queue: no callback of a
\* settled acquire() is in the queue for a later release() to serve
C4_TimedOutLeavesQueue ==
  \A i \in 1 .. Len(waitQueue) : ~waitQueue[i].settled

\* C5: with all handles in use a waiting acquire() completes only through a
\* release(); the next release() of a live handle completes the earliest
\* waiting acquire() with the released handle, which stays counted as in-use
\* and does not pass through the available set
C5_HandOffOnExhaustion ==
  [][(/\ initialized
      /\ Cardinality(busyBrowsers) = PoolSize
      /\ liveQueue # << >>
      /\ proc[liveQueue[1].owner].op = "acquire")
     => /\ \A c \in Callers :
             (proc[c].pc = "waiting" /\ proc'[c].pc = "holding")
               => lastReleased' = proc'[c].held
        /\ lastReleased' # NoHandle =>
             /\ proc'[liveQueue[1].owner].held = lastReleased'
             /\ availableBrowsers' = << >>
             /\ Cardinality(busyBrowsers') = PoolSize]_vars

\* C6: release(h) fails when the pool is not initialized or h is not in the
\* in-use set; hence a release(h) that directly follows a completed release(h)
\* fails
C6_SecondReleaseFails ==
  lastReleased # NoHandle => releaseError(lastReleased) # "none"

\* C7: a fetchAndParse call that completes on a pool that was never closed and
\* had no crashed handle has given its handle back: the handle is in the
\* available set or owned by another caller
C7_FetchReturnsHandle ==
  \A c \in Callers :
    (/\ proc[c].result \in {"fetched", "fetchAndParse:failed", "attempt:failed"}
     /\ lastReleased # NoHandle
     /\ ~cleanupRan
     /\ crashes = 0)
    => (inAvailable(lastReleased) \/ holders(lastReleased) # {})

\* no call is between two of its steps
quiescent ==
  \A c \in Callers : proc[c].pc \in {"idle", "holding", "waiting", "sleeping"}

\* C8: recovery restarts a dead handle in place: when an acquire() that went
\* through a successful restart has completed, the replacement handle is
\* tracked by the pool and the pool accounts for all its handles
C8_RecoveryKeepsPoolSize ==
  \A c \in Callers :
    (/\ proc[c].pc = "holding"
     /\ proc[c].attempt > 0
     /\ proc[c].result = "acquired"
     /\ initialized
     /\ ~cleanupRan
     /\ quiescent)
    => /\ Len(availableBrowsers) + Cardinality(busyBrowsers) = PoolSize
       /\ \A i \in 1 .. Len(managers) :
            browser[managers[i]] # NoHandle
              => (inAvailable(browser[managers[i]]) \/ browser[managers[i]] \in busyBrowsers)

\* C9: acquire() performs at most maxRetries recover-and-retry rounds: a call
\* gets past the retry check only with attempt < maxRetries, and the retry
\* after round number maxRetries fails with an error of operation 'acquire'
C9_BoundedRecovery ==
  [][\A c \in Callers :
       /\ (proc'[c].pc \in {"closing", "launching", "waiting", "holding"}
           /\ proc'[c].maxRetries > 0)
            => proc'[c].attempt < proc'[c].maxRetries
       /\ (/\ proc[c].pc = "launching"
           /\ proc[c].op = "acquire"
           /\ proc'[c].pc # "launching"
           /\ proc'[c].result # "recover:restart_failed"
           /\ proc[c].attempt + 1 >= proc[c].maxRetries)
            => proc'[c].result \in {"acquire:max_retries", "acquire:not_initialized"}]_vars

\* an acquire() ended by the retry limit after its handle was restarted
C9_Witness ==
  \E c \in Callers :
    /\ proc[c].result = "acquire:max_retries"
    /\ \E m \in ManagerIds : browser[m] = NextHandle - 1 /\ NextHandle - 1 > PoolSize

\* C10: after initialize() completes successfully isInitialized() is true and
\* getStats() reports total = P, available = P, inUse = 0
C10_InitializeStats ==
  [][\A c \in Callers :
       (proc[c].pc = "initializing" /\ proc'[c].result = "initialized")
         => /\ isInitialized'
            /\ getStats' = [total |-> PoolSize, available |-> PoolSize, inUse |-> 0]]_vars

\* initialize() has just completed
C10_Witness ==
  /\ \E c \in Callers : proc[c].result = "initialized"
  /\ isInitialized
  /\ getStats = [total |-> PoolSize, available |-> PoolSize, inUse |-> 0]

\* the handles that callers currently hold
heldHandles == { proc[c].held : c \in Callers } \ {NoHandle}

\* C11: without handle crashes and acquire timeouts, between completed
\* acquire() and release() calls on a pool that one initialize() call has
\* initialized getStats() reports total = P, inUse = the number of handles
\* held by callers and available = P - inUse
C11_StatsCountHeld ==
  (initialized /\ inits = 1 /\ ~cleanupRan /\ crashes = 0 /\ timeouts = 0)
    => getStats = [total |-> PoolSize,
                   available |-> PoolSize - Cardinality(heldHandles),
                   inUse |-> Cardinality(heldHandles)]

\* a release() has completed while another handle is still held
C11_Witness ==
  /\ initialized /\ inits = 1 /\ ~cleanupRan /\ crashes = 0 /\ timeouts = 0
  /\ lastReleased # NoHandle
  /\ getStats = [total |-> PoolSize, available |-> 1, inUse |-> 1]
  /\ Cardinality(heldHandles) = 1

\* C12: no handle is in the available set and in the in-use set at once
C12_AvailableBusyDisjoint ==
  Range(availableBrowsers) \cap busyBrowsers = {}

\* a released handle is back in the available set next to a handle in use
C12_Witness ==
  /\ lastReleased # NoHandle
  /\ inAvailable(lastReleased)
  /\ busyBrowsers # {}

\* C13: initialize() on an initialized pool launches no handle and leaves the
\* managers, the available set, the in-use set and the wait queue unchanged
C13_InitializeIdempotent ==
  [][(\E c \in Callers : proc'[c].result = "initialize:noop")
       => UNCHANGED << managers, availableBrowsers, busyBrowsers, waitQueue,
                       browser, launching, connected, launchedBy >>]_vars

\* initialize() has returned at once on a pool with a handle in use and a
\* caller waiting
C13_Witness ==
  /\ \E c \in Callers : proc[c].result = "initialize:noop"
  /\ Cardinality(busyBrowsers) = PoolSize
  /\ waitQueue # << >>

\* the handles the pool has launched
launched == { hh \in Handles : launchedBy[hh] # 0 }

\* C14: close() on an initialized pool ends with isInitialized() false, the
\* available and in-use sets empty and every handle the pool launched
\* closed; close() on an uninitialized pool changes nothing
C14_CloseClosesAll ==
  [][\A c \in Callers :
       /\ proc'[c].result = "closed"
            => /\ ~isInitialized'
               /\ availableBrowsers' = << >>
               /\ busyBrowsers' = {}
               /\ \A hh \in launched' : ~isConnected(hh)'
       /\ proc'[c].result = "close:noop"
            => UNCHANGED << poolVars, managerVars, engineVars >>]_vars

\* C15: during close(), a handle whose graceful close failed is killed: when
\* the close of a handle has ended, either way, the handle is not running any
\* more, and with the last one close() completes and the pool is reset
C15_KillAfterFailedClose ==
  [][\A c \in Callers : \A hh \in Handles :
       (/\ proc[c].pc = "cleanup"
        /\ proc[c].op = "close"
        /\ hh \in proc[c].closing
        /\ (proc'[c].pc # "cleanup" \/ hh \notin proc'[c].closing))
       => /\ ~isConnected(hh)'
          /\ proc[c].closing = {hh}
               => (proc'[c].result = "closed" /\ ~isInitialized')]_vars

\* the k-th initialize() call that got past the guard has failed: the launch
\* of one of its managers ended without a handle, which rejects Promise.all,
\* and that call is over, its catch block and cleanup() having run.  Other
\* initialize() calls, running or not, do not count.
initializeFailed(k) ==
  /\ k < inits
  /\ \E i \in 1 .. PoolSize :
        /\ ~launching[newManagers(k)[i]]
        /\ \A hh \in Handles : launchedBy[hh] # newManagers(k)[i]
  /\ \A c \in Callers : ~(proc[c].op = "initialize" /\ proc[c].mgrs = newManagers(k))

\* C16: after an initialize() that failed because a launch failed, no handle
\* launched by that initialize() call is running, and, when no initialize()
\* was called after it, the pool is uninitialized with empty available and
\* in-use sets
C16_FailedInitializeLeavesNothing ==
  \A k \in 0 .. MaxInits :
    initializeFailed(k)
      => /\ \A hh \in Handles :
              launchedBy[hh] \in Range(newManagers(k)) => ~isConnected(hh)
         /\ k = inits - 1
              => /\ ~isInitialized
                 /\ availableBrowsers = << >>
                 /\ busyBrowsers = {}

\* the launch() calls on manager m that are at the await of puppeteer.launch()
inFlight(m) == { c \in Callers : proc[c].pc = "launchAwait" /\ proc[c].mgrs = << m >> }

\* C17: for one manager at most one engine launch is in flight: a launch()
\* starts an engine launch only when none is underway and the manager has no
\* live handle, a launch() that waited for another one returns the handle
\* that launch left in the manager, and launch() on a manager with a live
\* handle returns that handle
C17_OneLaunchInFlight ==
  [][/\ \A m \in ManagerIds : Cardinality(inFlight(m)') <= 1
     /\ \A c \in Callers :
          /\ (proc[c].pc # "launchAwait" /\ proc'[c].pc = "launchAwait")
               => /\ ~launching[proc'[c].mgrs[1]]
                  /\ ~browserLive(proc'[c].mgrs[1])
          /\ proc'[c].result \in {"launch:waited", "launch:existing"}
               => /\ proc'[c].held = browser[proc'[c].mgrs[1]]
                  /\ browserLive(proc'[c].mgrs[1])
                  /\ UNCHANGED << browser, launching, engineVars >>]_vars

\* a launch() that waited for the launch of another caller has returned the
\* handle that launch produced
C17_Witness ==
  \E c \in Callers, m \in ManagerIds :
    /\ proc[c].result = "launch:waited"
    /\ proc[c].held = browser[m]
    /\ browserLive(m)
    /\ ~launching[m]

\* C18: restart() ignores errors from closing the old handle: when the close
\* inside restart() has ended, either way, restart() goes on to relaunch, and
\* the error of a failed close does not reach the caller of restart()
C18_RestartIgnoresCloseError ==
  [][\A c \in Callers :
       (proc[c].pc = "closing" /\ proc'[c].pc # "closing")
         => /\ proc'[c].pc = "launching"
            /\ launching'[launchedBy[proc[c].h]]
            /\ proc'[c].result # "recover:restart_failed"]_vars

\* C19: executeWithRetry(op, n) with n >= 1 invokes op one call at a time
\* until its first success or until n calls have failed: it never invokes op
\* more than n times, never again after a success, returns the value of the
\* first successful call, and gives up only after n failed calls
C19_RetryUntilSuccess ==
  (rh.pc # "idle" /\ rh.n >= 1)
    => /\ Len(rh.calls) <= rh.n
       /\ \A i \in 1 .. (Len(rh.calls) - 1) : ~rh.calls[i].ok
       /\ rh.pc = "running" => (rh.attempt = Len(rh.calls) + 1 /\ rh.attempt <= rh.n)
       /\ rh.pc = "delaying" => (Len(rh.calls) < rh.n /\ ~Last(rh.calls).ok)
       /\ rh.pc = "returned" => (Last(rh.calls).ok /\ rh.out = Last(rh.calls).v)
       /\ rh.pc = "threw" => (Len(rh.calls) = rh.n /\ ~Last(rh.calls).ok)

\* the second call succeeded with attempts to spare and its value is returned
C19_Witness ==
  /\ rh.pc = "returned"
  /\ Len(rh.calls) = 2
  /\ rh.n = MaxAttempts
  /\ ~rh.calls[1].ok
  /\ rh.out = rh.calls[2].v

\* C20: when all n attempts fail, executeWithRetry raises exactly the value
\* thrown by the last attempt, unchanged
C20_LastErrorUnchanged ==
  (rh.pc = "threw" /\ rh.n >= 1) => rh.out = Last(rh.calls).v

\* C20 as amended: when all n attempts fail, executeWithRetry raises the value
\* thrown by the last attempt unchanged if it is an Error, and otherwise a new
\* Error made from that value; never what an earlier attempt threw
C20_LastErrorOrWrapped ==
  (rh.pc = "threw" /\ rh.n >= 1)
    => LET v == Last(rh.calls).v IN
       /\ v.kind = "Error" => rh.out = v
       /\ v.kind # "Error"
            => rh.out = [kind |-> "Error", id |-> v.id, origin |-> "executeWithRetry"]

\* three attempts failed with three different thrown values, the last one an
\* Error, and that Error is what executeWithRetry raised
C20_Witness ==
  /\ rh.pc = "threw"
  /\ rh.n = MaxAttempts
  /\ Len(rh.calls) = MaxAttempts
  /\ rh.calls[1].v # rh.calls[3].v
  /\ rh.calls[2].v # rh.calls[3].v
  /\ rh.calls[3].v.kind = "Error"
  /\ rh.out = rh.calls[3].v

RECURSIVE Pow(_, _)
Pow(b, e) == IF e = 0 THEN 1 ELSE b * Pow(b, e - 1)

\* C21: the sleep after failed attempt k equals
\* min(initialDelay * multiplier^(k-1), maxDelay), so no sleep exceeds
\* maxDelay; there is no sleep before the first attempt and none after the
\* final failed attempt
C21_BackoffCapped ==
  (rh.pc # "idle" /\ rh.n >= 1)
    => /\ \A k \in 1 .. Len(rh.sleeps) :
            /\ rh.sleeps[k] = Min(rh.initialDelay * Pow(rh.multiplier, k - 1), rh.maxDelay)
            /\ rh.sleeps[k] <= rh.maxDelay
       /\ rh.pc = "running" => Len(rh.sleeps) = Len(rh.calls)
       /\ rh.pc = "delaying" => Len(rh.sleeps) = Len(rh.calls)
       /\ rh.pc = "returned" => Len(rh.sleeps) = Len(rh.calls) - 1
       /\ rh.pc = "threw" => Len(rh.sleeps) = rh.n - 1

\* C22: executeWithRetry(op, n) with n < 1 fails at once, without invoking
\* op and without sleeping
C22_InvalidAttemptsFailFast ==
  (rh.pc # "idle" /\ rh.n < 1)
    => /\ rh.pc = "threw"
       /\ rh.out = ValidationError
       /\ rh.calls = << >>
       /\ rh.sleeps = << >>

\* executeWithRetry was called with zero attempts and has thrown
C22_Witness ==
  /\ rh.pc = "threw"
  /\ rh.n = 0
  /\ rh.out = ValidationError
  /\ rh.calls = << >>

\* C23: fetchAndParse(url) with a URL whose scheme is not http or https
\* consumes no pool resource: the call never holds a handle, never has an
\* entry in the wait queue and never recovers or retries
C23_BadUrlTakesNoHandle ==
  \A c \in Callers :
    (proc[c].url # "none" /\ ~hasHttpScheme(proc[c].url))
      => /\ proc[c].held = NoHandle
         /\ proc[c].pc \notin {"holding", "waiting", "closing", "launching", "sleeping"}
         /\ \A i \in 1 .. Len(waitQueue) : waitQueue[i].owner # c

\* C24: a fetch through a handle returns the body text exactly when navigation
\* yields a response with 200 <= status < 400 whose body is non-empty after
\* trimming; in every other case it throws a FeedFetchError carrying the feed URL
C24_FetchSucceedsIff ==
  (reader.pc = "fetched" /\ hasHttpScheme(reader.feedUrl))
    => LET nav == reader.nav
           good == /\ nav.kind = "response"
                   /\ 200 <= nav.status /\ nav.status < 400
                   /\ nav.content.kind = "text"
                   /\ trim(nav.content.text) # << >>
       IN /\ good <=> reader.out.kind = "content"
          /\ good => reader.out.content = nav.content.text
          /\ ~good => /\ reader.out.kind = "threw"
                      /\ reader.out.error.name = "FeedFetchError"
                      /\ reader.out.error.feedUrl = reader.feedUrl

\* C24 witness: a 399 response with a padded body is returned as it came
C24_Witness ==
  /\ reader.pc = "fetched"
  /\ reader.nav.status = 399
  /\ reader.out.kind = "content"
  /\ reader.out.content = <<" ", "a", " ">>

\* what the try block of parseItems gives for entry i of the parsed feed
entry(i) == tryItem(reader.rawItems[i], reader.feedUrl, reader.config)

\* the entries of the parsed feed that were assembled and passed validation
succeeded == { i \in 1 .. Len(reader.rawItems) : entry(i).error = NoError }

\* C25: with n >= 1 entries the call throws exactly when every entry fails, and
\* then throws the first entry's failure; otherwise the Feed is built from
\* exactly the entries that succeeded, one item each when their links differ
C25_AllFailedOrFeed ==
  (reader.pc = "parsed" /\ Len(reader.rawItems) >= 1)
    => /\ reader.out.kind = "threw" <=> succeeded = {}
       /\ succeeded = {} => reader.out.error = entry(1).error
       /\ succeeded # {}
            => /\ reader.out.kind = "feed"
               /\ \A k \in 1 .. Len(reader.out.items) :
                    \E i \in succeeded : reader.out.items[k] = entry(i).item
               /\ \A i \in succeeded :
                    \E k \in 1 .. Len(reader.out.items) :
                      reader.out.items[k].link = entry(i).item.link
               /\ (\A i, j \in succeeded : i # j => entry(i).item.link # entry(j).item.link)
                    => Len(reader.out.items) = Cardinality(succeeded)

\* C25 witness: of two entries the first fails and the second is the Feed's item
C25_Witness ==
  /\ reader.pc = "parsed"
  /\ Len(reader.rawItems) = 2
  /\ succeeded = {2}
  /\ reader.out.kind = "feed"
  /\ Len(reader.out.items) = 1

\* C26: the items of the Feed are the items of a strictly increasing choice of
\* entries
C26_OrderPreserved ==
  (reader.pc = "parsed" /\ reader.out.kind = "feed")
    => \E f \in [1 .. Len(reader.out.items) -> 1 .. Len(reader.rawItems)] :
         /\ \A k \in 1 .. Len(reader.out.items) :
              f[k] \in succeeded /\ reader.out.items[k] = entry(f[k]).item
         /\ \A j, k \in 1 .. Len(reader.out.items) : j < k => f[j] < f[k]

\* C26 witness: a Feed of two different items
C26_Witness ==
  /\ reader.pc = "parsed"
  /\ reader.out.kind = "feed"
  /\ Len(reader.out.items) = 2
  /\ reader.out.items[1].title # reader.out.items[2].title

\* C27: no two items of the Feed share a link, the item kept for a link is
\* that of the first entry that succeeded with it, and deduplicating the Feed's
\* items again changes nothing
C27_DedupByLink ==
  (reader.pc = "parsed" /\ reader.out.kind = "feed")
    => /\ \A j, k \in 1 .. Len(reader.out.items) :
            j # k => reader.out.items[j].link # reader.out.items[k].link
       /\ \A k \in 1 .. Len(reader.out.items) :
            \E i \in succeeded :
              /\ reader.out.items[k] = entry(i).item
              /\ \A j \in succeeded :
                   entry(j).item.link = reader.out.items[k].link => i <= j
       /\ deduplicateItems(reader.out.items) = reader.out.items

\* C27 witness: two entries succeed with one link and the first one is kept
C27_Witness ==
  /\ reader.pc = "parsed"
  /\ succeeded = {1, 2}
  /\ entry(1).item.link = entry(2).item.link
  /\ entry(1).item.title # entry(2).item.title
  /\ reader.out.items = << entry(1).item >>

\* the Item invariant
validItem(item) ==
  /\ item.title.type = "string" /\ trim(item.title.text) # << >>
  /\ item.link.type = "string" /\ trim(item.link.text) # << >>
  /\ item.publishedAt.type = "Date" /\ item.publishedAt.valid
  /\ item.links.type = "array"
  /\ \A l \in 1 .. Len(item.links.elems) : item.links.elems[l].type = "string"

\* C28: every item of a Feed satisfies the Item invariant, and an assembled
\* entry that violates it is not among the Feed's items
C28_ItemsValid ==
  (reader.pc = "parsed" /\ reader.out.kind = "feed")
    => /\ \A k \in 1 .. Len(reader.out.items) : validItem(reader.out.items[k])
       /\ \A i \in 1 .. Len(reader.rawItems) :
            LET parsed == parseItem(reader.rawItems[i], reader.feedUrl, reader.config)
            IN (parsed.ok /\ ~validItem(parsed.item))
                 => \A k \in 1 .. Len(reader.out.items) : reader.out.items[k] # parsed.item

\* C28 witness: an entry whose title was cleaned down to empty is assembled
\* and left out of a Feed that has another item
C28_Witness ==
  /\ reader.pc = "parsed"
  /\ reader.out.kind = "feed"
  /\ Len(reader.out.items) = 1
  /\ \E i \in 1 .. Len(reader.rawItems) :
       LET parsed == parseItem(reader.rawItems[i], reader.feedUrl, reader.config)
       IN parsed.ok /\ parsed.item.title = Some(<< >>)

\* C29: every per-item failure that the call throws carries the feed URL
C29_FailureCarriesFeedUrl ==
  (reader.pc = "parsed" /\ reader.out.kind = "threw" /\ reader.out.error.name = "ParseError")
    => reader.out.error.feedUrl = reader.feedUrl

\* a required field of an entry is absent, not a string or empty after trimming
missing(value) == value.kind # "text" \/ trim(value.text) = << >>

\* C30: parseItem fails on the first of title, link and date that is missing,
\* fails on a date text that is no date, and assembles every other entry
C30_RequiredFieldsInOrder ==
  reader.pc = "parsed"
    => \A i \in 1 .. Len(reader.rawItems) :
         LET e == reader.rawItems[i]
             r == parseItem(e, reader.feedUrl, reader.config)
             fails(message) == ~r.ok /\ r.error.name = "ParseError" /\ r.error.message = message
         IN /\ missing(e.title) => fails("Item is missing required field: title")
            /\ (~missing(e.title) /\ missing(e.link))
                 => fails("Item is missing required field: link")
            /\ (~missing(e.title) /\ ~missing(e.link) /\ missing(e.pubDate))
                 => fails("Item is missing required field: pubDate")
            /\ (~missing(e.title) /\ ~missing(e.link) /\ ~missing(e.pubDate))
                 => IF newDate(trim(e.pubDate.text)).valid
                    THEN r.ok
                    ELSE fails("Failed to parse publication date")

\* C30 witness: an entry with a title, without link and date, fails on the link
C30_Witness ==
  /\ reader.pc = "parsed"
  /\ Len(reader.rawItems) = 1
  /\ ~missing(reader.rawItems[1].title)
  /\ missing(reader.rawItems[1].link)
  /\ missing(reader.rawItems[1].pubDate)
  /\ reader.out.kind = "threw"
  /\ reader.out.error.message = "Item is missing required field: link"

\* the validation rules in their fixed order: 1 title, 2 link, 3 publishedAt,
\* 4 links is a sequence, 5 links elements are strings, 6 itemId, 7 rawContent,
\* 8 metadata
nonEmptyString(v) == v.type = "string" /\ trim(v.text) # << >>
violates(item, rule) ==
  CASE rule = 1 -> ~nonEmptyString(item.title)
    [] rule = 2 -> ~nonEmptyString(item.link)
    [] rule = 3 -> ~(item.publishedAt.type = "Date" /\ item.publishedAt.valid)
    [] rule = 4 -> item.links.type # "array"
    [] rule = 5 -> /\ item.links.type = "array"
                   /\ \E i \in 1 .. Len(item.links.elems) : item.links.elems[i].type # "string"
    [] rule = 6 -> item.itemId.type \notin {"undefined", "string"}
    [] rule = 7 -> item.rawContent.type \notin {"undefined", "string"}
    [] rule = 8 -> item.metadata \notin {"undefined", "object"}

\* the rule that a failure message names
ruleNamed(message) ==
  CASE message = "Item validation failed: title is required and must be a non-empty string" -> 1
    [] message = "Item validation failed: link is required and must be a non-empty string" -> 2
    [] message = "Item validation failed: publishedAt is required and must be a Date object" -> 3
    [] message = "Item validation failed: publishedAt must be a valid Date" -> 3
    [] message = "Item validation failed: links must be an array" -> 4
    [] message = "Item validation failed: all links must be strings" -> 5
    [] message = "Item validation failed: itemId must be a string if provided" -> 6
    [] message = "Item validation failed: rawContent must be a string if provided" -> 7
    [] message = "Item validation failed: metadata must be a non-null object if provided" -> 8
    [] OTHER -> 0

\* C31: validate raises a ParseError exactly for the items that violate a rule,
\* the failure names the first violated rule in the fixed order, and isValid
\* returns true exactly when validate does not raise
C31_ValidateFirstRule ==
  reader.pc = "validated"
    => LET violated == { r \in 1 .. 8 : violates(reader.item, r) }
       IN /\ (reader.out.kind = "threw") <=> (violated # {})
          /\ violated # {}
               => /\ reader.out.error.name = "ParseError"
                  /\ ruleNamed(reader.out.error.message) \in violated
                  /\ \A r \in violated : ruleNamed(reader.out.error.message) <= r
          /\ reader.out.valid <=> (reader.out.kind = "returned")

\* C31 witness: an item with a good title that violates the link rule and the
\* metadata rule is rejected for its link, and isValid says no
C31_Witness ==
  /\ reader.pc = "validated"
  /\ ~violates(reader.item, 1)
  /\ violates(reader.item, 2)
  /\ violates(reader.item, 8)
  /\ reader.out.kind = "threw"
  /\ ruleNamed(reader.out.error.message) = 2
  /\ ~reader.out.valid

\* the trimmed href of the anchor at position k of a content text, << >> when
\* the token is no anchor, has no href or has a blank one
hrefAt(html, k) ==
  IF html[k] \in Anchors /\ attrHref(html[k]).type = "string"
  THEN trim(attrHref(html[k]).text)
  ELSE << >>
firstSeen(html, href) ==
  CHOOSE k \in 1 .. Len(html) :
    /\ hrefAt(html, k) = href
    /\ \A j \in 1 .. Len(html) : hrefAt(html, j) = href => k <= j

\* C32: extractLinks returns the trimmed non-empty hrefs of the anchors, each
\* once, ordered by their first occurrence in the content
C32_LinksUniqueInOrder ==
  reader.pc = "extracted"
    => LET html == reader.html
           links == reader.out.links
           expected == { hrefAt(html, k) : k \in 1 .. Len(html) } \ { << >> }
       IN /\ \A i, j \in 1 .. Len(links) : i # j => links[i] # links[j]
          /\ Range(links) = expected
          /\ \A i, j \in 1 .. Len(links) :
               i < j => firstSeen(html, links[i]) < firstSeen(html, links[j])

\* C32 witness: a content text with the same href twice, once padded with
\* blanks, and another href after it yields two links
C32_Witness ==
  /\ reader.pc = "extracted"
  /\ \E i, j, k \in 1 .. Len(reader.html) :
       /\ i < j /\ j < k
       /\ reader.html[i] = "M" /\ reader.html[j] = "m" /\ reader.html[k] = "h"
  /\ reader.out.links = << <<"m">>, <<"h">> >>

\* caller c is handed handle hh in this step
handedOut(c, hh) ==
  /\ proc'[c].pc = "holding"
  /\ proc'[c].held = hh
  /\ proc[c].pc # "holding" \/ proc[c].held # hh

\* C33: a handle is handed to a caller only in a step that found it connected
\* and recorded it in busyBrowsers, and the step in which an engine dies changes
\* nothing in the pool or in any call: the death is noticed at the next acquire
\* or hand-off
C33_HandedOutLive ==
  [][ /\ \A c \in Callers, hh \in Handles :
           handedOut(c, hh) => hh \in connected' /\ hh \in busyBrowsers'
      /\ crashes' # crashes
           => /\ UNCHANGED << availableBrowsers, busyBrowsers, waitQueue >>
              /\ \A c \in Callers : proc'[c].pc = proc[c].pc /\ proc'[c].held = proc[c].held
    ]_vars

\* C33 witness: after a crash, a waiter has just been handed the released
\* handle, which is connected
C33_Witness ==
  /\ crashes = 1
  /\ \E c \in Callers :
       /\ proc[c].pc = "holding"
       /\ proc[c].held = lastReleased
       /\ proc[c].held \in connected
       /\ proc[c].held \in busyBrowsers

\* C34: while no cleanup has run, a caller waiting in acquire() either has its
\* callback in the queue or is the waiter that a release() in progress took
\* from the queue and is about to serve
C34_WaiterServed ==
  ~cleanupRan
    => \A w \in Callers :
         (proc[w].pc = "waiting" /\ proc[w].op = "acquire")
           => \/ wrapper(w) \in Range(waitQueue)
              \/ \E c \in Callers : /\ proc[c].op \in {"release", "release_acquire"}
                                    /\ proc[c].pc # "idle"
                                    /\ proc[c].target = wrapper(w)

\* C35: every handle in availableBrowsers or busyBrowsers is the current
\* handle of exactly one manager of the pool, and no call fails because
\* recoverBrowser found no manager
C35_PooledHandleOwned ==
  /\ \A hh \in Range(availableBrowsers) \cup busyBrowsers :
       Cardinality({ i \in 1 .. Len(managers) : browser[managers[i]] = hh }) = 1
  /\ \A c \in Callers : proc[c].result # "recover:manager_not_found"

\* C36: whenever the wait queue is non-empty, availableBrowsers is empty
C36_NoWaitWhileAvailable ==
  waitQueue # << >> => availableBrowsers = << >>

\* C39: when two initialize() calls got past the guard without any cleanup,
\* both have returned and no handle is in use, exactly PoolSize engines run and
\* all of them are in availableBrowsers
C39_OverlappingInitialize ==
  (/\ inits = 2 /\ ~cleanupRan /\ initialized
   /\ \A m \in ManagerIds : ~launching[m]
   /\ \A c \in Callers : proc[c].pc = "idle"
   /\ busyBrowsers = {})
    => /\ Cardinality(connected) = PoolSize
       /\ Range(availableBrowsers) = connected
       /\ Len(availableBrowsers) = PoolSize

\* C40: an initialize() call that has seen a close() return since it was
\* called, with no initialize() called after that close(), never sets the pool
\* initialized
C40_ClosedStaysClosed ==
  [][ \A c \in Callers :
        (proc[c].pc = "initializing" /\ proc[c].closed) => ~(~initialized /\ initialized')
    ]_vars

\* C37: with no engine dying, no close(), no timer firing and every holder
\* releasing in the end, every acquire() that had to wait gets a handle
C37_AcquireCompletes ==
  \A c \in Callers : (proc[c].pc = "waiting") ~> (proc[c].pc = "holding")

\* C37 witness: a caller that waited holds the handle another caller has just
\* released, and nothing but initialize, acquire and release has happened
C37_Witness ==
  /\ inits = 1 /\ crashes = 0 /\ timeouts = 0 /\ fetches = 0 /\ ~cleanupRan
  /\ \E c \in Callers :
       /\ proc[c].pc = "holding"
       /\ proc[c].result = "acquired"
       /\ lastReleased = proc[c].held
       /\ \E x \in Callers \ {c} : proc[x].result = "released"

\* C38: every fetchAndParse call that is under way ends, with the feed text
\* or with an error
C38_FetchCompletes ==
  \A c \in Callers : (proc[c].mode # "raw") ~> (proc[c].mode = "raw")

\* C38 witness: a fetchAndParse call whose acquire() was queued when close()
\* cleared the queue has ended with an error after its timer fired
C38_Witness ==
  /\ cleanupRan
  /\ timeouts > 0
  /\ \E c \in Callers : proc[c].result = "fetchAndParse:failed"

====
